---- MODULE Spec2Model ----
(***************************************************************************)
(* The Thrift service handler of the seafile daemon                        *)
(* (src/daemon/seafile_service.c): nine RPC methods bound to the functions *)
(* of the seafile engine, the error-to-boolean translation, the conversion *)
(* of engine repository objects into Repo records, and the life cycle of   *)
(* the handler's log table.                                                *)
(*                                                                         *)
(* The engine (seafile_set_config, seafile_clone, ...) is external: each   *)
(* call's return value and its effect on the error slot are chosen         *)
(* nondeterministically.                                                   *)
(***************************************************************************)
EXTENDS Integers, Sequences, FiniteSets, TLC

VARIABLES
    life,        \* "alive" between instance init and finalize, then "finalized"
    log,         \* self->log: [ptr, refs, entries]
    lifecycle,   \* the steps of init / finalize run so far, in order
    observer,    \* which history the run records: "trace" or "pair"
    rpcCalls,    \* (trace) the RPC methods dispatched so far, in order
    engineCalls, \* (trace) the engine functions invoked so far, in order
    last,        \* (trace) the most recent RPC call: inputs, engine call, results
    saved,       \* (pair) an earlier call, remembered for comparison
    echo         \* (pair) the latest call since with the inputs of saved

vars ==
    <<life, log, lifecycle, observer, rpcCalls, engineCalls, last, saved, echo>>

----------------------------------------------------------------------------
(* Bounds *)

MaxCalls == 3        \* RPC calls recorded in one traced run
MaxList == 2         \* length of the list seafile_get_repo_list returns

----------------------------------------------------------------------------
(* Values *)

NULL == "NULL"       \* the null pointer, for gchar* values

\* GError **error as the caller passes it:
\*   "noslot": error == NULL;  "empty": *error == NULL;  "set": *error != NULL
ErrSlots == {"noslot", "empty", "set"}

\* What the engine may leave in the slot: it can only fill an empty one.
EngineErrs(error) == IF error = "empty" THEN {"empty", "set"} ELSE {error}

Keys == {"k1", "k2"}
Values == {"v1"}
RepoIds == {"r1", "r2"}
Starts == {0, 1}
Limits == {2}
IntRets == {0, -1}
StrRets == {NULL, "task"}

\* CloneRequest / DownloadRequest; the fourth field is worktree in the
\* former and wt_parent in the latter.
CloneRequests ==
    { [repo_id |-> "r1", repo_version |-> 1, repo_name |-> "lib1",
       worktree |-> "/wt1", token |-> "tok1", passwd |-> "pw1",
       magic |-> "mg1", email |-> "a@x", random_key |-> "rk1",
       enc_version |-> 2, more_info |-> "info1"],
      [repo_id |-> "r2", repo_version |-> 0, repo_name |-> "lib2",
       worktree |-> "/wt2", token |-> "tok2", passwd |-> NULL,
       magic |-> NULL, email |-> "b@x", random_key |-> NULL,
       enc_version |-> 0, more_info |-> NULL] }

DownloadRequests ==
    { [repo_id |-> "r1", repo_version |-> 1, repo_name |-> "lib1",
       wt_parent |-> "/par1", token |-> "tok1", passwd |-> "pw1",
       magic |-> "mg1", email |-> "a@x", random_key |-> "rk1",
       enc_version |-> 2, more_info |-> "info1"],
      [repo_id |-> "r2", repo_version |-> 0, repo_name |-> "lib2",
       wt_parent |-> "/par2", token |-> "tok2", passwd |-> NULL,
       magic |-> NULL, email |-> "b@x", random_key |-> NULL,
       enc_version |-> 0, more_info |-> NULL] }

\* The engine's repository objects, by handle; handle 0 is the NULL object.
\* Each is the table of GObject properties g_object_get reads.
RepoObjects ==
    << ("id" :> "r1") @@ ("name" :> "lib1") @@ ("desc" :> "first")
         @@ ("encrypted" :> TRUE) @@ ("worktree" :> "/wt1")
         @@ ("auto-sync" :> FALSE) @@ ("last-sync-time" :> 100)
         @@ ("worktree-invalid" :> FALSE) @@ ("relay-id" :> "relay1")
         @@ ("version" :> 1),
       ("id" :> "r2") @@ ("name" :> "lib2") @@ ("desc" :> "second")
         @@ ("encrypted" :> FALSE) @@ ("worktree" :> "/wt2")
         @@ ("auto-sync" :> FALSE) @@ ("last-sync-time" :> 200)
         @@ ("worktree-invalid" :> TRUE) @@ ("relay-id" :> "relay2")
         @@ ("version" :> 0) >>

NullObject == 0
Objects == 1..Len(RepoObjects)

\* The lists seafile_get_repo_list may return (the empty sequence is the
\* NULL GList).
RECURSIVE ListsOfLen(_)
ListsOfLen(n) ==
    IF n = 0 THEN {<<>>}
    ELSE {Append(l, o) : l \in ListsOfLen(n - 1), o \in Objects}

EngineLists == UNION {ListsOfLen(n) : n \in 0..MaxList}

\* A Repo record as g_object_new (TYPE_REPO, NULL) leaves it.
NewRepo ==
    [id |-> NULL, name |-> NULL, desc |-> NULL, encrypted |-> FALSE,
     worktree |-> NULL, auto_sync |-> FALSE, last_sync_time |-> 0,
     worktree_invalid |-> FALSE, relay_id |-> NULL, version |-> 0]

\* A Repo record the caller hands in with earlier contents.
PriorRepo ==
    [id |-> "old", name |-> "oldname", desc |-> "olddesc", encrypted |-> TRUE,
     worktree |-> "/old", auto_sync |-> TRUE, last_sync_time |-> 7,
     worktree_invalid |-> TRUE, relay_id |-> "oldrelay", version |-> 9]

\* What the caller's response slot holds before the call.
PriorInts == {77}
PriorStrs == {"prior"}
PriorRepos == {PriorRepo}
PriorArrays == {<<PriorRepo>>}
Void == "void"       \* a method without a response slot

----------------------------------------------------------------------------
(* The handlers.  Each takes the handler's state (iface: the log table),   *)
(* the arguments of the C function, and the outcome eng = [ret, err] of    *)
(* the engine call it makes; it yields the engine calls made, the response *)
(* slot and error slot afterwards, the gboolean returned, and the          *)
(* handler's state afterwards.                                             *)

handle_error(error) ==
    IF error # "noslot" /\ error # "empty" THEN FALSE ELSE TRUE

\* Variant: ping reports the state of the error slot it is given.
ping_checks_error(iface, error) ==
    [calls |-> <<>>, resp |-> Void, error |-> error,
     flag |-> (error # "set"), log |-> iface]

seafile_service_handler_ping(iface, error) ==
    [calls |-> <<>>, resp |-> Void, error |-> error, flag |-> TRUE,
     log |-> iface]

\* Variant: the response is written only when the call succeeded.
set_config_writes_on_success(iface, _return, key, value, error, eng) ==
    [calls |-> << [fn |-> "seafile_set_config", args |-> <<key, value>>] >>,
     resp |-> (IF eng.err = "set" THEN _return ELSE eng.ret),
     error |-> eng.err, flag |-> (eng.err # "set"), log |-> iface]

seafile_service_set_config(iface, _return, key, value, error, eng) ==
    [calls |-> << [fn |-> "seafile_set_config", args |-> <<key, value>>] >>,
     resp |-> eng.ret, error |-> eng.err, flag |-> handle_error(eng.err),
     log |-> iface]

\* Variant: a value once read is kept in the log table and served from it.
get_config_cached(iface, _return, key, error, eng) ==
    LET hit == {e \in iface.entries : e[1] = key}
        val == IF hit = {} THEN eng.ret ELSE (CHOOSE e \in hit : TRUE)[2]
    IN  [calls |-> << [fn |-> "seafile_get_config", args |-> <<key>>] >>,
         resp |-> val, error |-> eng.err, flag |-> (eng.err # "set"),
         log |-> IF hit = {} /\ eng.ret # NULL
                 THEN [iface EXCEPT !.entries = @ \cup {<<key, eng.ret>>}]
                 ELSE iface]

seafile_service_get_config(iface, _return, key, error, eng) ==
    [calls |-> << [fn |-> "seafile_get_config", args |-> <<key>>] >>,
     resp |-> eng.ret, error |-> eng.err, flag |-> handle_error(eng.err),
     log |-> iface]

\* Variant: token and passwd change places in the argument list.
download_repo_swapped(iface, _return, request, error, eng) ==
    [calls |-> << [fn |-> "seafile_download",
                   args |-> <<request.repo_id, request.repo_version,
                              request.repo_name, request.wt_parent,
                              request.passwd, request.token, request.magic,
                              request.email, request.random_key,
                              request.enc_version, request.more_info>>] >>,
     resp |-> eng.ret, error |-> eng.err, flag |-> (eng.err # "set"),
     log |-> iface]

seafile_service_handler_download_repo(iface, _return, request, error, eng) ==
    [calls |-> << [fn |-> "seafile_download",
                   args |-> <<request.repo_id, request.repo_version,
                              request.repo_name, request.wt_parent,
                              request.token, request.passwd, request.magic,
                              request.email, request.random_key,
                              request.enc_version, request.more_info>>] >>,
     resp |-> eng.ret, error |-> eng.err, flag |-> handle_error(eng.err),
     log |-> iface]

\* Variant: a NULL task id is treated as a failure.
clone_repo_null_fails(iface, _return, request, error, eng) ==
    [calls |-> << [fn |-> "seafile_clone",
                   args |-> <<request.repo_id, request.repo_version,
                              request.repo_name, request.worktree,
                              request.token, request.passwd, request.magic,
                              request.email, request.random_key,
                              request.enc_version, request.more_info>>] >>,
     resp |-> eng.ret, error |-> eng.err,
     flag |-> (eng.ret # NULL /\ eng.err # "set"), log |-> iface]

seafile_service_handler_clone_repo(iface, _return, request, error, eng) ==
    [calls |-> << [fn |-> "seafile_clone",
                   args |-> <<request.repo_id, request.repo_version,
                              request.repo_name, request.worktree,
                              request.token, request.passwd, request.magic,
                              request.email, request.random_key,
                              request.enc_version, request.more_info>>] >>,
     resp |-> eng.ret, error |-> eng.err, flag |-> handle_error(eng.err),
     log |-> iface]

\* Variant: the worktree flag is stored with the opposite sense.
convert_repo_inverted(repo, r) ==
    LET p == RepoObjects[repo] IN
    [r EXCEPT !.id = p["id"], !.name = p["name"], !.desc = p["desc"],
              !.encrypted = p["encrypted"], !.worktree = p["worktree"],
              !.auto_sync = p["auto-sync"],
              !.last_sync_time = p["last-sync-time"],
              !.worktree_invalid = ~p["worktree-invalid"],
              !.relay_id = p["relay-id"], !.version = p["version"]]

convert_repo(repo, r) ==
    LET p == RepoObjects[repo] IN
    [r EXCEPT !.id = p["id"], !.name = p["name"], !.desc = p["desc"],
              !.encrypted = p["encrypted"], !.worktree = p["worktree"],
              !.auto_sync = p["auto-sync"],
              !.last_sync_time = p["last-sync-time"],
              !.worktree_invalid = p["worktree-invalid"],
              !.relay_id = p["relay-id"], !.version = p["version"]]

seafile_service_handler_get_repo(iface, _return, repo_id, error, eng) ==
    LET call == [fn |-> "seafile_get_repo", args |-> <<repo_id>>]
        repo == eng.ret
    IN  IF repo = NullObject
        THEN [calls |-> <<call>>, resp |-> _return, error |-> eng.err,
              flag |-> FALSE, log |-> iface]
        ELSE [calls |-> <<call>>, resp |-> convert_repo(repo, _return),
              error |-> eng.err, flag |-> handle_error(eng.err),
              log |-> iface]

\* Variant: a failed destroy is tried a second time.
destroy_repo_retries(iface, repo_id, error, eng) ==
    LET call == [fn |-> "seafile_destroy_repo", args |-> <<repo_id>>] IN
    [calls |-> IF eng.ret = 0 THEN <<call>> ELSE <<call, call>>,
     resp |-> Void, error |-> eng.err, flag |-> (eng.err # "set"),
     log |-> iface]

seafile_service_handler_destroy_repo(iface, repo_id, error, eng) ==
    [calls |-> << [fn |-> "seafile_destroy_repo", args |-> <<repo_id>>] >>,
     resp |-> Void, error |-> eng.err, flag |-> handle_error(eng.err),
     log |-> iface]

seafile_service_handler_shutdown(iface, error, eng) ==
    [calls |-> << [fn |-> "seafile_shutdown", args |-> <<>>] >>,
     resp |-> Void, error |-> eng.err, flag |-> handle_error(eng.err),
     log |-> iface]

\* Variant: the loop stops at the last element instead of after it.
RECURSIVE AppendAllButLast(_, _)
AppendAllButLast(array, l) ==
    IF l = <<>> \/ Tail(l) = <<>> THEN array
    ELSE AppendAllButLast(Append(array, convert_repo(Head(l), NewRepo)),
                          Tail(l))

\* The loop over the GList: one new Repo, converted and appended, per element.
RECURSIVE AppendConverted(_, _)
AppendConverted(array, l) ==
    IF l = <<>> THEN array
    ELSE AppendConverted(Append(array, convert_repo(Head(l), NewRepo)),
                         Tail(l))

seafile_service_handler_get_repo_list(iface, _return, start, limit, error, eng) ==
    [calls |-> << [fn |-> "seafile_get_repo_list",
                   args |-> <<start, limit>>] >>,
     resp |-> AppendConverted(_return, eng.ret), error |-> eng.err,
     flag |-> handle_error(eng.err), log |-> iface]

----------------------------------------------------------------------------
(* Life cycle of the handler instance *)

\* self->log after seafile_service_handler_init: a new, empty table holding
\* one reference.
seafile_service_handler_init ==
    [ptr |-> "table", refs |-> 1, entries |-> {}]

\* Variant: the parent finalizer is chained first and the pointer is kept.
finalize_keeps_pointer(self_log) ==
    [steps |-> <<"parent finalize", "g_hash_table_unref">>,
     log |-> [self_log EXCEPT !.refs = self_log.refs - 1]]

\* seafile_service_handler_finalize: the steps it takes, in order, and
\* self->log afterwards.
seafile_service_handler_finalize(self_log) ==
    [steps |-> <<"g_hash_table_unref", "log = NULL", "parent finalize">>,
     log |-> [self_log EXCEPT !.ptr = NULL, !.refs = self_log.refs - 1]]

\* The method table seafile_service_handler_class_init fills in.
seafile_service_handler_class_init ==
    [finalize |-> "seafile_service_handler_finalize",
     ping |-> "seafile_service_handler_ping",
     set_config |-> "seafile_service_set_config",
     get_config |-> "seafile_service_get_config",
     clone_repo |-> "seafile_service_handler_clone_repo",
     download_repo |-> "seafile_service_handler_download_repo",
     get_repo |-> "seafile_service_handler_get_repo",
     destroy_repo |-> "seafile_service_handler_destroy_repo",
     shutdown |-> "seafile_service_handler_shutdown",
     get_repo_list |-> "seafile_service_handler_get_repo_list"]

klass == seafile_service_handler_class_init

Methods ==
    {"ping", "set_config", "get_config", "clone_repo", "download_repo",
     "get_repo", "destroy_repo", "shutdown", "get_repo_list"}

----------------------------------------------------------------------------
(* State machine *)

NoCall == [method |-> "none"]

InitCommon ==
    /\ life = "alive"
    /\ log = seafile_service_handler_init
    /\ lifecycle = <<"g_hash_table_new_full">>
    /\ rpcCalls = <<>>
    /\ engineCalls = <<>>
    /\ last = NoCall
    /\ saved = NoCall
    /\ echo = NoCall

Init == InitCommon /\ observer = "trace"
InitPair == InitCommon /\ observer = "pair"

RECURSIVE FnNames(_)
FnNames(calls) ==
    IF calls = <<>> THEN <<>> ELSE <<Head(calls).fn>> \o FnNames(Tail(calls))

\* Two calls of the same method with the same arguments, the same response
\* slot and error slot going in, and the same answer from the engine.
SameInputs(a, b) ==
    /\ a.method = b.method
    /\ a.args = b.args
    /\ a.prior = b.prior
    /\ a.error = b.error
    /\ a.ret = b.ret
    /\ a.engErr = b.engErr

\* One dispatched RPC call: the handler has run with result res.  A traced
\* run appends to the two traces; a paired run either remembers the call or
\* compares it with the remembered one.
Dispatch(method, args, prior, error, eng, res) ==
    LET call == [method |-> method, args |-> args, prior |-> prior,
                 error |-> error, ret |-> eng.ret, engErr |-> eng.err,
                 calls |-> res.calls, resp |-> res.resp,
                 errAfter |-> res.error, flag |-> res.flag]
    IN  /\ life = "alive"
        /\ Len(rpcCalls) < MaxCalls
        /\ log' = res.log
        /\ IF observer = "trace"
           THEN /\ last' = call
                /\ rpcCalls' = Append(rpcCalls, method)
                /\ engineCalls' = engineCalls \o FnNames(res.calls)
                /\ UNCHANGED <<saved, echo>>
           ELSE /\ \/ saved' = call /\ echo' = NoCall
                   \/ /\ saved' = saved
                      /\ echo' = IF SameInputs(saved, call) THEN call ELSE echo
                /\ UNCHANGED <<rpcCalls, engineCalls, last>>
        /\ UNCHANGED <<life, lifecycle, observer>>

Engine(rets, error) == {[ret |-> r, err |-> e] : r \in rets, e \in EngineErrs(error)}

Ping ==
    /\ klass.ping = "seafile_service_handler_ping"
    /\ \E error \in ErrSlots :
          Dispatch("ping", <<>>, Void, error, [ret |-> Void, err |-> error],
                   seafile_service_handler_ping(log, error))

SetConfig ==
    /\ klass.set_config = "seafile_service_set_config"
    /\ \E key \in Keys, value \in Values, prior \in PriorInts,
          error \in ErrSlots :
          \E eng \in Engine(IntRets, error) :
             Dispatch("set_config", <<key, value>>, prior, error, eng,
                      seafile_service_set_config(log, prior, key, value,
                                                 error, eng))

GetConfig ==
    /\ klass.get_config = "seafile_service_get_config"
    /\ \E key \in Keys, prior \in PriorStrs, error \in ErrSlots :
          \E eng \in Engine({NULL, "v1"}, error) :
             Dispatch("get_config", <<key>>, prior, error, eng,
                      seafile_service_get_config(log, prior, key, error, eng))

DownloadRepo ==
    /\ klass.download_repo = "seafile_service_handler_download_repo"
    /\ \E request \in DownloadRequests, prior \in PriorStrs,
          error \in ErrSlots :
          \E eng \in Engine(StrRets, error) :
             Dispatch("download_repo", <<request>>, prior, error, eng,
                      seafile_service_handler_download_repo(log, prior,
                                                            request, error,
                                                            eng))

CloneRepo ==
    /\ klass.clone_repo = "seafile_service_handler_clone_repo"
    /\ \E request \in CloneRequests, prior \in PriorStrs,
          error \in ErrSlots :
          \E eng \in Engine(StrRets, error) :
             Dispatch("clone_repo", <<request>>, prior, error, eng,
                      seafile_service_handler_clone_repo(log, prior, request,
                                                         error, eng))

GetRepo ==
    /\ klass.get_repo = "seafile_service_handler_get_repo"
    /\ \E repo_id \in RepoIds, prior \in PriorRepos, error \in ErrSlots :
          \E eng \in Engine({NullObject} \cup Objects, error) :
             Dispatch("get_repo", <<repo_id>>, prior, error, eng,
                      seafile_service_handler_get_repo(log, prior, repo_id,
                                                       error, eng))

DestroyRepo ==
    /\ klass.destroy_repo = "seafile_service_handler_destroy_repo"
    /\ \E repo_id \in RepoIds, error \in ErrSlots :
          \E eng \in Engine(IntRets, error) :
             Dispatch("destroy_repo", <<repo_id>>, Void, error, eng,
                      seafile_service_handler_destroy_repo(log, repo_id,
                                                           error, eng))

Shutdown ==
    /\ klass.shutdown = "seafile_service_handler_shutdown"
    /\ \E error \in ErrSlots :
          \E eng \in Engine(IntRets, error) :
             Dispatch("shutdown", <<>>, Void, error, eng,
                      seafile_service_handler_shutdown(log, error, eng))

GetRepoList ==
    /\ klass.get_repo_list = "seafile_service_handler_get_repo_list"
    /\ \E start \in Starts, limit \in Limits, prior \in PriorArrays,
          error \in ErrSlots :
          \E eng \in Engine(EngineLists, error) :
             Dispatch("get_repo_list", <<start, limit>>, prior, error, eng,
                      seafile_service_handler_get_repo_list(log, prior, start,
                                                            limit, error,
                                                            eng))

\* The last reference to the handler is dropped: GObject runs the finalizer
\* that class_init registered.
Finalize ==
    /\ klass.finalize = "seafile_service_handler_finalize"
    /\ life = "alive"
    /\ LET fin == seafile_service_handler_finalize(log) IN
          /\ log' = fin.log
          /\ lifecycle' = lifecycle \o fin.steps
    /\ life' = "finalized"
    /\ UNCHANGED <<observer, rpcCalls, engineCalls, last, saved, echo>>

Next ==
    \/ Ping
    \/ SetConfig
    \/ GetConfig
    \/ DownloadRepo
    \/ CloneRepo
    \/ GetRepo
    \/ DestroyRepo
    \/ Shutdown
    \/ GetRepoList
    \/ Finalize

Spec == Init /\ [][Next]_vars
SpecPair == InitPair /\ [][Next]_vars

----------------------------------------------------------------------------
(* Properties *)

EngineBacked == Methods \ {"ping"}

\* The engine function the RPC interface pairs with each method.
EngineFn ==
    [set_config |-> "seafile_set_config", get_config |-> "seafile_get_config",
     clone_repo |-> "seafile_clone", download_repo |-> "seafile_download",
     get_repo |-> "seafile_get_repo", destroy_repo |-> "seafile_destroy_repo",
     shutdown |-> "seafile_shutdown",
     get_repo_list |-> "seafile_get_repo_list"]

\* The engine handed back a null pointer (a NULL string, object or list).
NullResult(c) ==
    CASE c.method \in {"get_config", "clone_repo", "download_repo"} ->
             c.ret = NULL
      [] c.method = "get_repo" -> c.ret = NullObject
      [] c.method = "get_repo_list" -> c.ret = <<>>
      [] OTHER -> FALSE

\* The error slot is absent or empty.
NoError(e) == e \in {"noslot", "empty"}

\* C1 as stated: whenever the engine call of an engine-backed operation
\* populates the error object or returns null, the handler returns FALSE.
C1_NullOrErrorIsFalse ==
    (last.method \in EngineBacked /\ (last.engErr = "set" \/ NullResult(last)))
        => last.flag = FALSE

\* C1 amended: a populated error slot makes every engine-backed handler
\* return FALSE; a null result with the error slot empty or absent makes
\* get_repo return FALSE and every other handler return TRUE.
C1_ErrorIsFalse ==
    last.method \in EngineBacked =>
        /\ last.engErr = "set" => last.flag = FALSE
        /\ (NullResult(last) /\ NoError(last.engErr)) =>
              (last.flag = FALSE <=> last.method = "get_repo")

C1_Witness ==
    /\ last.method = "clone_repo"
    /\ last.ret = NULL
    /\ last.engErr = "empty"
    /\ last.flag = TRUE

\* C2: clone_repo and download_repo call seafile_clone / seafile_download
\* once with the eleven request fields in the order repo_id, repo_version,
\* repo_name, worktree (wt_parent), token, passwd, magic, email, random_key,
\* enc_version, more_info, each unaltered, and the response is what the
\* engine returned.
C2_ForwardVerbatim ==
    last.method \in {"clone_repo", "download_repo"} =>
        LET req == last.args[1]
            a == last.calls[1].args
        IN  /\ Len(last.calls) = 1
            /\ last.calls[1].fn = (IF last.method = "clone_repo"
                                    THEN "seafile_clone"
                                    ELSE "seafile_download")
            /\ Len(a) = 11
            /\ a[1] = req.repo_id
            /\ a[2] = req.repo_version
            /\ a[3] = req.repo_name
            /\ a[4] = (IF last.method = "clone_repo"
                       THEN req.worktree ELSE req.wt_parent)
            /\ a[5] = req.token
            /\ a[6] = req.passwd
            /\ a[7] = req.magic
            /\ a[8] = req.email
            /\ a[9] = req.random_key
            /\ a[10] = req.enc_version
            /\ a[11] = req.more_info
            /\ last.resp = last.ret

C2_Witness ==
    /\ last.method = "download_repo"
    /\ last.args[1].wt_parent = "/par1"
    /\ last.args[1].passwd = "pw1"
    /\ last.resp = "task"

\* C3: get_repo_list passes start and limit to seafile_get_repo_list as
\* given; the response array afterwards is its earlier contents followed by
\* one descriptor per element of the engine's list, in the engine's order,
\* whether or not the engine set the error.
C3_ListAppended ==
    last.method = "get_repo_list" =>
        LET n == Len(last.prior) IN
        /\ Len(last.calls) = 1
        /\ last.calls[1].fn = "seafile_get_repo_list"
        /\ last.calls[1].args = <<last.args[1], last.args[2]>>
        /\ Len(last.resp) = n + Len(last.ret)
        /\ SubSeq(last.resp, 1, n) = last.prior
        /\ \A i \in 1..Len(last.ret) :
              last.resp[n + i].id = RepoObjects[last.ret[i]]["id"]

C3_Witness ==
    /\ last.method = "get_repo_list"
    /\ last.prior # <<>>
    /\ last.ret = <<2, 1>>
    /\ last.engErr = "set"
    /\ Len(last.resp) = 3

\* The descriptors a call converted, each with the engine object it was
\* converted from.
Converted(c) ==
    CASE c.method = "get_repo" /\ c.ret # NullObject ->
             {<<c.resp, c.ret>>}
      [] c.method = "get_repo_list" ->
             {<<c.resp[Len(c.prior) + i], c.ret[i]>> : i \in 1..Len(c.ret)}
      [] OTHER -> {}

\* C4 as stated: the eighth descriptor field is a worktree-valid flag, TRUE
\* when the engine object's worktree is valid.
C4_WorktreeValidFlag ==
    \A dc \in Converted(last) :
        dc[1].worktree_invalid = ~RepoObjects[dc[2]]["worktree-invalid"]

\* C4 amended: every converted descriptor has each of its ten fields (id,
\* name, description, encryption flag, worktree path, auto-sync flag, last
\* sync time, worktree-invalid flag, relay id, version) equal to the
\* same-named property of the engine object.
C4_FieldsCopied ==
    \A dc \in Converted(last) :
        LET d == dc[1]
            p == RepoObjects[dc[2]]
        IN  /\ d.id = p["id"]
            /\ d.name = p["name"]
            /\ d.desc = p["desc"]
            /\ d.encrypted = p["encrypted"]
            /\ d.worktree = p["worktree"]
            /\ d.auto_sync = p["auto-sync"]
            /\ d.last_sync_time = p["last-sync-time"]
            /\ d.worktree_invalid = p["worktree-invalid"]
            /\ d.relay_id = p["relay-id"]
            /\ d.version = p["version"]

C4_Witness ==
    /\ last.method = "get_repo"
    /\ last.ret = 1
    /\ last.prior.worktree_invalid = TRUE
    /\ last.resp.worktree_invalid = FALSE
    /\ last.resp.encrypted = TRUE

\* C5 as stated: after N RPC calls the engine has been invoked N times.
C5_OneEngineCallPerRpc ==
    Len(engineCalls) = Len(rpcCalls)

RECURSIVE ExpectedEngineCalls(_)
ExpectedEngineCalls(methods) ==
    IF methods = <<>> THEN <<>>
    ELSE (IF Head(methods) = "ping" THEN <<>>
          ELSE <<EngineFn[Head(methods)]>>)
         \o ExpectedEngineCalls(Tail(methods))

\* C5 amended: each of the nine methods is bound to an implementation of
\* its own; a call of an engine-backed method invokes that method's engine
\* function exactly once and ping invokes none, so the engine functions
\* invoked so far are those of the non-ping calls, in the order of the calls.
C5_EngineCallsFollowRpcCalls ==
    /\ \A m \in Methods : klass[m] # NULL
    /\ \A m1, m2 \in Methods : klass[m1] = klass[m2] => m1 = m2
    /\ \A m1, m2 \in EngineBacked : EngineFn[m1] = EngineFn[m2] => m1 = m2
    /\ engineCalls = ExpectedEngineCalls(rpcCalls)
    /\ last.method \in EngineBacked =>
          FnNames(last.calls) = <<EngineFn[last.method]>>

C5_Witness ==
    /\ rpcCalls = <<"clone_repo", "ping", "download_repo">>
    /\ engineCalls = <<"seafile_clone", "seafile_download">>

\* C6: while the handler is alive its log table is the one created at
\* construction, non-null, holding one reference and no entries, whatever
\* RPC calls were made; after teardown the table has been released exactly
\* once, the handler's pointer is null and the parent finalizer ran last.
C6_LogLifecycle ==
    /\ life = "alive" =>
          /\ log = [ptr |-> "table", refs |-> 1, entries |-> {}]
          /\ lifecycle = <<"g_hash_table_new_full">>
    /\ life = "finalized" =>
          /\ log = [ptr |-> NULL, refs |-> 0, entries |-> {}]
          /\ lifecycle = <<"g_hash_table_new_full", "g_hash_table_unref",
                           "log = NULL", "parent finalize">>

C6_Witness ==
    /\ life = "finalized"
    /\ Len(rpcCalls) = MaxCalls
    /\ log.ptr = NULL

\* C7: for set_config, get_config, clone_repo, download_repo, destroy_repo,
\* shutdown and get_repo_list the flag is TRUE iff there is no error slot or
\* the slot is empty after the engine call; for the first four the response
\* is the engine's return value, whatever the flag.
C7_FlagFromErrorSlot ==
    /\ last.method \in EngineBacked \ {"get_repo"} =>
          (last.flag = TRUE <=> NoError(last.errAfter))
    /\ last.method \in {"set_config", "get_config", "clone_repo",
                         "download_repo"} =>
          last.resp = last.ret

C7_Witness ==
    /\ last.method = "get_config"
    /\ last.ret = NULL
    /\ last.errAfter = "set"
    /\ last.flag = FALSE
    /\ last.resp = NULL
    /\ last.prior # NULL

\* C8 as stated: get_repo with a null engine object returns FALSE and leaves
\* the descriptor unchanged; a FALSE return always comes with a populated
\* error; with a non-null object the descriptor is filled and the flag is
\* TRUE iff the error slot is empty.
C8_FalseHasError ==
    last.method = "get_repo" =>
        /\ last.ret = NullObject =>
              (last.flag = FALSE /\ last.resp = last.prior)
        /\ last.flag = FALSE => last.errAfter = "set"
        /\ last.ret # NullObject =>
              /\ last.resp = convert_repo(last.ret, last.prior)
              /\ last.flag = TRUE <=> NoError(last.errAfter)

\* C9: ping returns TRUE whatever the error slot holds and whatever calls
\* came before; it invokes no engine function, has no response value and
\* leaves the error slot as it was.
C9_Ping ==
    last.method = "ping" =>
        /\ last.flag = TRUE
        /\ last.calls = <<>>
        /\ last.resp = Void
        /\ last.errAfter = last.error

C9_Witness ==
    /\ last.method = "ping"
    /\ last.error = "set"
    /\ last.flag = TRUE
    /\ Len(rpcCalls) = MaxCalls
    /\ rpcCalls[1] = "set_config"

====
